---- MODULE Spec2Model ----
(***************************************************************************)
(* SpeakToNote: the Notion credential store (NotionService.loadConfig,     *)
(* saveConfig, setSelectedPage, disconnect, authenticate), the note store  *)
(* (StorageService) and the sync orchestration of HomeScreen and           *)
(* SyncStatusBar, as state machines.  Every `await` of the TypeScript code *)
(* is one step of the async call that holds it: the awaited storage or     *)
(* network operation takes effect and the code up to the next await runs.  *)
(***************************************************************************)
EXTENDS Integers, Sequences, FiniteSets, TLC

\* ------------------------------------------------------------------ values

\* JavaScript null (AsyncStorage.getItem of a missing key, this.config = null)
Null == "<null>"
\* JavaScript undefined (an optional field that is absent)
Undef == "<undefined>"

\* a value that is falsy in `if (v)`, `v || d`
Falsy(v) == v \in {Null, Undef, ""}

\* v || d
OrElse(v, d) == IF Falsy(v) THEN d ELSE v

NOTION_TOKEN_KEY == "@speak_to_note_notion_token"
NOTION_PAGE_ID_KEY == "@speak_to_note_notion_page_id"
NOTION_PAGE_NAME_KEY == "@speak_to_note_notion_page_name"
NOTION_USER_ID_KEY == "@speak_to_note_notion_user_id"
NOTION_WORKSPACE_ID_KEY == "@speak_to_note_notion_workspace_id"

CredKeys ==
  {NOTION_TOKEN_KEY, NOTION_PAGE_ID_KEY, NOTION_PAGE_NAME_KEY,
   NOTION_USER_ID_KEY, NOTION_WORKSPACE_ID_KEY}

\* interface NotionConfig; the value of this.config when it is null has Null in
\* every field, so that this.config?.f is falsy as in the code
NotionConfig(tok, pid, pname, uid, wid, wname) ==
  [accessToken |-> tok, pageId |-> pid, pageName |-> pname,
   userId |-> uid, workspaceId |-> wid, workspaceName |-> wname]

NoConfig == NotionConfig(Null, Null, Null, Null, Null, Null)

\* the record authenticate builds from a successful token response
\* (tokenData.workspace_name || 'User Workspace')
OAuthConfig(tok, uid, wid, wname) ==
  NotionConfig(tok, "", "", uid, wid, OrElse(wname, "User Workspace"))

\* the record authenticate builds in its catch block
TestConfig ==
  NotionConfig("secret_test", "test-page-id", "Test Page",
               "user_test", "workspace_test", "Test Workspace")

\* the record NotionTokenScreen.handleSave passes to saveConfig
ManualConfig(tok, pid, pname) == NotionConfig(tok, pid, pname, Undef, Undef, Undef)

\* token responses the token endpoint can answer with
TokenResponses ==
  {[access_token |-> "tokA", user |-> "usrA", workspace_id |-> "wsA", workspace_name |-> "WS A"],
   [access_token |-> "tokB", user |-> "usrB", workspace_id |-> "wsB", workspace_name |-> Undef]}

\* pages the user can pick in the page list
Pages == {[id |-> "pg1", title |-> "Page 1"], [id |-> "pg2", title |-> "Page 2"]}

\* records callers hand to saveConfig
SaveInputs ==
  {OAuthConfig(r.access_token, r.user, r.workspace_id, r.workspace_name) : r \in TokenResponses}
    \cup {ManualConfig("tokM", "pgM", "Page M")}

\* ------------------------------------------------------------------ state

VARIABLES
  storage,     \* AsyncStorage: the five credential entries, Null when absent
  config,      \* NotionService.config
  notion,      \* NotionService.notion: the token the client was built with, or Null
  task,        \* the running calls of NotionService methods, one per caller
  saved,       \* the records saveConfig has been called with so far
  cleared,     \* the saved records a completed disconnect has removed since
  calls,       \* the number of NotionService calls started so far
  notesStore,  \* AsyncStorage: the notes under NOTES_STORAGE_KEY, in stored order
  remote,      \* the Notion page: per note id, the contents appended to it
  notes,       \* HomeScreen state `notes`
  unsyncedNotes,       \* SyncStatusBar state `unsyncedNotes`
  isSyncing,           \* SyncStatusBar state `isSyncing`
  isNotionConfigured,  \* SyncStatusBar state `isNotionConfigured`
  barStale,    \* unsyncedNotes holds the objects of an earlier notes array
  checking,    \* a SyncStatusBar.checkNotionConfig is running
  reload,      \* a HomeScreen.loadNotes has been asked for and not yet run
  sn,          \* the running calls of NotionService.syncNote, one per caller
  auto,        \* the running HomeScreen.transcribeAudio
  batch,       \* the running (or last) SyncStatusBar.handleSyncAll
  edit,        \* the NoteEditScreen: the note it holds, its handleSave
  del,         \* the running HomeScreen.handleDeleteNote
  created,     \* the number of notes created so far
  rec          \* the recorder of the HomeScreen, its auto-stop timers and the clock

credVars == <<storage, config, notion, task, saved, cleared, calls>>

syncVars ==
  <<notesStore, remote, notes, unsyncedNotes, isSyncing, isNotionConfigured,
    barStale, checking, reload, sn, auto, batch, edit, del, created, rec>>

vars == <<credVars, syncVars>>

\* at most this many NotionService calls are started in one run
MaxCalls == 3

\* number of callers (UI surfaces) that can have a NotionService call in flight
NTasks == 2

Tasks == 1..NTasks

IdleTask ==
  [op |-> "idle", pc |-> "done", arg |-> NoConfig, rd |-> NoConfig,
   ret |-> "none", val |-> NoConfig, why |-> "",
   prevOp |-> "idle", prevArg |-> NoConfig,
   snapStorage |-> [k \in CredKeys |-> Null], snapConfig |-> NoConfig,
   snapNotion |-> Null, storageFailed |-> FALSE,
   pages |-> <<>>, searchToken |-> Null]

\* the methods whose calls remember the credential state they started in
\* (what their caller saw before the call)
Snapshotting == {"auth", "syncNote", "save", "setpage", "disconnect"}

\* a caller starts a call of method op: its last completed call becomes prev
Begin(t, op, pc, arg) ==
  [task[t] EXCEPT !.prevOp = task[t].op, !.prevArg = task[t].arg,
                  !.op = op, !.pc = pc, !.arg = arg, !.rd = NoConfig,
                  !.ret = "none", !.val = NoConfig, !.why = "", !.storageFailed = FALSE,
                  !.pages = <<>>, !.searchToken = Null,
                  !.snapStorage = IF op \in Snapshotting THEN storage ELSE IdleTask.snapStorage,
                  !.snapConfig = IF op \in Snapshotting THEN config ELSE NoConfig,
                  !.snapNotion = IF op \in Snapshotting THEN notion ELSE Null]

\* saveConfig is called with c: c is a saved record, and not a disconnected one
Record(c) ==
  /\ saved' = saved \cup {c}
  /\ cleared' = cleared \ {c}

\* the caller t has no call in flight and may start one
Free(t) == task[t].pc = "done" /\ calls < MaxCalls

\* ------------------------------------------------------------ loadConfig

StartLoad(t) ==
  /\ Free(t)
  /\ task' = [task EXCEPT ![t] = Begin(t, "load", "l1", NoConfig)]
  /\ UNCHANGED <<storage, config, notion, saved, cleared>>
  /\ calls' = calls + 1
  /\ UNCHANGED syncVars

\* the five awaited AsyncStorage.getItem calls, in the order of the code
LoadRead(t) ==
  /\ task[t].pc \in {"l1", "l2", "l3", "l4", "l5"}
  /\ task' = [task EXCEPT ![t] =
       CASE task[t].pc = "l1" -> [@ EXCEPT !.rd.accessToken = storage[NOTION_TOKEN_KEY], !.pc = "l2"]
         [] task[t].pc = "l2" -> [@ EXCEPT !.rd.pageId = storage[NOTION_PAGE_ID_KEY], !.pc = "l3"]
         [] task[t].pc = "l3" -> [@ EXCEPT !.rd.pageName = storage[NOTION_PAGE_NAME_KEY], !.pc = "l4"]
         [] task[t].pc = "l4" -> [@ EXCEPT !.rd.userId = storage[NOTION_USER_ID_KEY], !.pc = "l5"]
         [] task[t].pc = "l5" -> [@ EXCEPT !.rd.workspaceId = storage[NOTION_WORKSPACE_ID_KEY], !.pc = "lret"]]
  /\ UNCHANGED <<storage, config, notion, saved, cleared, calls>>
  /\ UNCHANGED syncVars

\* the record loadConfig builds from what it read (workspaceName is not read)
LoadedConfig(rd) ==
  NotionConfig(rd.accessToken, OrElse(rd.pageId, ""), OrElse(rd.pageName, ""),
               OrElse(rd.userId, Undef), OrElse(rd.workspaceId, Undef), Undef)

\* if (token) { this.config = {...}; return this.config } return null
LoadReturn(t) ==
  /\ task[t].pc = "lret"
  /\ IF ~Falsy(task[t].rd.accessToken)
       THEN /\ config' = LoadedConfig(task[t].rd)
            /\ task' = [task EXCEPT ![t].pc = "done", ![t].ret = "ok",
                                    ![t].val = LoadedConfig(task[t].rd)]
       ELSE /\ config' = config
            /\ task' = [task EXCEPT ![t].pc = "done", ![t].ret = "ok", ![t].val = NoConfig]
  /\ UNCHANGED <<storage, notion, saved, cleared, calls>>
  /\ UNCHANGED syncVars

\* an awaited AsyncStorage.getItem of loadConfig rejects: the catch block logs
\* and returns null
LoadFail(t) ==
  /\ task[t].pc \in {"l1", "l2", "l3", "l4", "l5"}
  /\ task' = [task EXCEPT ![t].pc = "done", ![t].ret = "ok", ![t].val = NoConfig,
                          ![t].storageFailed = TRUE]
  /\ UNCHANGED <<storage, config, notion, saved, cleared, calls>>
  /\ UNCHANGED syncVars

\* ------------------------------------------------------------ saveConfig

StartSave(t, c) ==
  /\ Free(t)
  /\ task' = [task EXCEPT ![t] = Begin(t, "save", "s1", c)]
  /\ Record(c)
  /\ UNCHANGED <<storage, config, notion>>
  /\ calls' = calls + 1
  /\ UNCHANGED syncVars

\* where saveConfig goes after the page name is written: the optional writes
AfterPageName(c) ==
  IF ~Falsy(c.userId) THEN "s4" ELSE IF ~Falsy(c.workspaceId) THEN "s5" ELSE "sret"

AfterUserId(c) == IF ~Falsy(c.workspaceId) THEN "s5" ELSE "sret"

\* the awaited AsyncStorage.setItem calls of saveConfig
SaveWrite(t) ==
  /\ task[t].pc \in {"s1", "s2", "s3", "s4", "s5"}
  /\ LET c == task[t].arg IN
     CASE task[t].pc = "s1" ->
            /\ storage' = [storage EXCEPT ![NOTION_TOKEN_KEY] = c.accessToken]
            /\ task' = [task EXCEPT ![t].pc = "s2"]
       [] task[t].pc = "s2" ->
            /\ storage' = [storage EXCEPT ![NOTION_PAGE_ID_KEY] = c.pageId]
            /\ task' = [task EXCEPT ![t].pc = "s3"]
       [] task[t].pc = "s3" ->
            /\ storage' = [storage EXCEPT ![NOTION_PAGE_NAME_KEY] = c.pageName]
            /\ task' = [task EXCEPT ![t].pc = AfterPageName(c)]
       [] task[t].pc = "s4" ->
            /\ storage' = [storage EXCEPT ![NOTION_USER_ID_KEY] = c.userId]
            /\ task' = [task EXCEPT ![t].pc = AfterUserId(c)]
       [] task[t].pc = "s5" ->
            /\ storage' = [storage EXCEPT ![NOTION_WORKSPACE_ID_KEY] = c.workspaceId]
            /\ task' = [task EXCEPT ![t].pc = "sret"]
  /\ UNCHANGED <<config, notion, saved, cleared, calls>>
  /\ UNCHANGED syncVars

\* this.config = { ...config }, then the caller of saveConfig goes on:
\* saveConfig and setSelectedPage return, authenticate returns true
SaveReturn(t) ==
  /\ task[t].pc = "sret"
  /\ config' = task[t].arg
  /\ task' = [task EXCEPT ![t].pc = "done",
                          ![t].ret = IF task[t].op = "auth" THEN "true" ELSE "ok"]
  /\ UNCHANGED <<storage, notion, saved, cleared, calls>>
  /\ UNCHANGED syncVars

\* a saveConfig that assigns this.config before its writes: a failed write
\* leaves the record of the call cached
SaveFailCached(t) ==
  /\ task[t].pc \in {"s1", "s2", "s3", "s4", "s5"}
  /\ task' = [task EXCEPT ![t].pc = "done", ![t].ret = "throw",
                          ![t].why = "Failed to save user Notion configuration",
                          ![t].storageFailed = TRUE]
  /\ config' = task[t].arg
  /\ UNCHANGED <<storage, notion, saved, cleared, calls>>
  /\ UNCHANGED syncVars

\* an awaited AsyncStorage.setItem of saveConfig rejects: saveConfig's catch
\* throws 'Failed to save user Notion configuration' before this.config is
\* assigned.  saveConfig and setSelectedPage pass the error on; authenticate
\* catches the one of its try block, builds the test record and saves that,
\* and an error of that second saveConfig leaves authenticate
SaveFail(t) ==
  /\ task[t].pc \in {"s1", "s2", "s3", "s4", "s5"}
  /\ IF task[t].op = "auth" /\ task[t].why = "token"
       THEN /\ task' = [task EXCEPT ![t].pc = "s1", ![t].arg = TestConfig,
                                     ![t].why = "Failed to save user Notion configuration",
                                     ![t].storageFailed = TRUE]
            /\ Record(TestConfig)
       ELSE /\ task' = [task EXCEPT ![t].pc = "done", ![t].ret = "throw",
                                     ![t].why = "Failed to save user Notion configuration",
                                     ![t].storageFailed = TRUE]
            /\ UNCHANGED <<saved, cleared>>
  /\ UNCHANGED <<storage, config, notion, calls>>
  /\ UNCHANGED syncVars

\* ------------------------------------------------------- setSelectedPage

\* if (!this.config) throw; updatedConfig = this.config with the page; saveConfig
SetSelectedPage(t, p) ==
  /\ Free(t)
  /\ IF config = NoConfig
       THEN /\ task' = [task EXCEPT ![t] =
                 [Begin(t, "setpage", "done", NoConfig) EXCEPT !.ret = "throw",
                                                               !.why = "Notion not authenticated"]]
            /\ UNCHANGED <<saved, cleared>>
       ELSE LET updatedConfig ==
                  NotionConfig(config.accessToken, p.id, p.title,
                               config.userId, config.workspaceId, config.workspaceName)
            IN /\ task' = [task EXCEPT ![t] = Begin(t, "setpage", "s1", updatedConfig)]
               /\ Record(updatedConfig)
  /\ UNCHANGED <<storage, config, notion>>
  /\ calls' = calls + 1
  /\ UNCHANGED syncVars

\* ------------------------------------------------------------ disconnect

StartDisconnect(t) ==
  /\ Free(t)
  /\ task' = [task EXCEPT ![t] = Begin(t, "disconnect", "d1", NoConfig)]
  /\ UNCHANGED <<storage, config, notion, saved, cleared>>
  /\ calls' = calls + 1
  /\ UNCHANGED syncVars

\* a disconnect that forgets the access token entry: it removes the two page entries
DisconnectRemovePage(t) ==
  /\ task[t].pc \in {"d1", "d2", "d3"}
  /\ CASE task[t].pc = "d1" ->
            /\ storage' = storage
            /\ task' = [task EXCEPT ![t].pc = "d2"]
       [] task[t].pc = "d2" ->
            /\ storage' = [storage EXCEPT ![NOTION_PAGE_ID_KEY] = Null]
            /\ task' = [task EXCEPT ![t].pc = "d3"]
       [] task[t].pc = "d3" ->
            /\ storage' = [storage EXCEPT ![NOTION_PAGE_NAME_KEY] = Null]
            /\ task' = [task EXCEPT ![t].pc = "dret"]
  /\ UNCHANGED <<config, notion, saved, cleared, calls>>
  /\ UNCHANGED syncVars

\* the three awaited AsyncStorage.removeItem calls
DisconnectRemove(t) ==
  /\ task[t].pc \in {"d1", "d2", "d3"}
  /\ CASE task[t].pc = "d1" ->
            /\ storage' = [storage EXCEPT ![NOTION_TOKEN_KEY] = Null]
            /\ task' = [task EXCEPT ![t].pc = "d2"]
       [] task[t].pc = "d2" ->
            /\ storage' = [storage EXCEPT ![NOTION_PAGE_ID_KEY] = Null]
            /\ task' = [task EXCEPT ![t].pc = "d3"]
       [] task[t].pc = "d3" ->
            /\ storage' = [storage EXCEPT ![NOTION_PAGE_NAME_KEY] = Null]
            /\ task' = [task EXCEPT ![t].pc = "dret"]
  /\ UNCHANGED <<config, notion, saved, cleared, calls>>
  /\ UNCHANGED syncVars

\* an awaited AsyncStorage.removeItem rejects: the catch block throws
\* 'Failed to disconnect Notion'
DisconnectFail(t) ==
  /\ task[t].pc \in {"d1", "d2", "d3"}
  /\ task' = [task EXCEPT ![t].pc = "done", ![t].ret = "throw",
                          ![t].why = "Failed to disconnect Notion",
                          ![t].storageFailed = TRUE]
  /\ UNCHANGED <<storage, config, notion, saved, cleared, calls>>
  /\ UNCHANGED syncVars

\* this.config = null; this.notion = null
DisconnectReturn(t) ==
  /\ task[t].pc = "dret"
  /\ config' = NoConfig
  /\ notion' = Null
  /\ task' = [task EXCEPT ![t].pc = "done", ![t].ret = "ok"]
  /\ cleared' = saved
  /\ UNCHANGED <<storage, saved, calls>>
  /\ UNCHANGED syncVars

\* ---------------------------------------------------------- authenticate

\* what WebBrowser.openAuthSessionAsync resolves to
BrowserResults == {"code", "error", "nocode", "cancel", "dismiss"}

StartAuthenticate(t) ==
  /\ Free(t)
  /\ task' = [task EXCEPT ![t] = Begin(t, "auth", "browser", NoConfig)]
  /\ UNCHANGED <<storage, config, notion, saved, cleared>>
  /\ calls' = calls + 1
  /\ UNCHANGED syncVars

\* an authenticate whose cancel branch throws like the other failures do
AuthBrowserCancelThrows(t, result) ==
  /\ task[t].pc = "browser"
  /\ IF result = "code"
       THEN /\ task' = [task EXCEPT ![t].pc = "fetch"]
            /\ UNCHANGED <<saved, cleared>>
       ELSE /\ task' = [task EXCEPT ![t].pc = "s1", ![t].arg = TestConfig,
                          ![t].why = IF result = "cancel" THEN "cancel" ELSE "OAuth failed"]
            /\ Record(TestConfig)
  /\ UNCHANGED <<storage, config, notion, calls>>
  /\ UNCHANGED syncVars

\* await WebBrowser.openAuthSessionAsync and the branches on its result; every
\* throw inside the try lands in the catch block, which saves TestConfig
AuthBrowser(t, result) ==
  /\ task[t].pc = "browser"
  /\ CASE result = "code" ->
            /\ task' = [task EXCEPT ![t].pc = "fetch"]
            /\ UNCHANGED <<saved, cleared>>
       [] result = "cancel" ->
            /\ task' = [task EXCEPT ![t].pc = "done", ![t].ret = "false", ![t].why = "cancel"]
            /\ UNCHANGED <<saved, cleared>>
       [] OTHER ->
            /\ task' = [task EXCEPT ![t].pc = "s1", ![t].arg = TestConfig,
                          ![t].why = CASE result = "error" -> "OAuth error"
                                       [] result = "nocode" -> "No authorization code received"
                                       [] OTHER -> "OAuth failed"]
            /\ Record(TestConfig)
  /\ UNCHANGED <<storage, config, notion, calls>>
  /\ UNCHANGED syncVars

\* await fetch(NOTION_TOKEN_URL): a 2xx answer carries tokenData and goes on to
\* saveConfig; any other status throws 'Token exchange failed' into the catch
AuthFetchOk(t, tokenData) ==
  /\ task[t].pc = "fetch"
  /\ LET c == OAuthConfig(tokenData.access_token, tokenData.user,
                          tokenData.workspace_id, tokenData.workspace_name)
     IN /\ task' = [task EXCEPT ![t].pc = "s1", ![t].arg = c, ![t].why = "token"]
        /\ Record(c)
  /\ UNCHANGED <<storage, config, notion, calls>>
  /\ UNCHANGED syncVars

AuthFetchNotOk(t) ==
  /\ task[t].pc = "fetch"
  /\ task' = [task EXCEPT ![t].pc = "s1", ![t].arg = TestConfig,
                          ![t].why = "Token exchange failed"]
  /\ Record(TestConfig)
  /\ UNCHANGED <<storage, config, notion, calls>>
  /\ UNCHANGED syncVars

\* ---------------------------------------------------------- getUserPages

\* the sample list the catch block of getUserPages returns
FallbackPages ==
  <<[id |-> "page-1", title |-> "My Notes"],
    [id |-> "page-2", title |-> "Meeting Notes"],
    [id |-> "page-3", title |-> "Ideas & Thoughts"],
    [id |-> "page-4", title |-> "Daily Journal"]>>

\* what notion.search can answer with: per item its id and the value of
\* page.properties?.title?.title?.[0]?.plain_text
SearchResults ==
  {<<>>,
   <<[id |-> "pg1", title |-> "Page 1"]>>,
   <<[id |-> "pg1", title |-> "Page 1"], [id |-> "pg2", title |-> Undef]>>,
   <<[id |-> "pg3", title |-> ""]>>}

\* response.results.map(page => ({ id, title: ... || 'Untitled', url }))
MapPages(results) ==
  [i \in DOMAIN results |->
     [id |-> results[i].id, title |-> OrElse(results[i].title, "Untitled")]]

\* a getUserPages without its catch block: the error leaves the method
GetUserPagesRaises(t) ==
  /\ Free(t)
  /\ IF Falsy(config.accessToken)
       THEN /\ task' = [task EXCEPT ![t] =
                 [Begin(t, "pages", "done", NoConfig) EXCEPT
                    !.ret = "throw",
                    !.why = "Notion not configured. Please authenticate first."]]
            /\ notion' = notion
       ELSE /\ task' = [task EXCEPT ![t] = Begin(t, "pages", "search", NoConfig)]
            /\ notion' = IF notion = Null THEN config.accessToken ELSE notion
  /\ calls' = calls + 1
  /\ UNCHANGED <<storage, config, saved, cleared>>
  /\ UNCHANGED syncVars

\* getUserPages up to its first await: initializeNotion throws when no access
\* token is cached, and the catch block returns the sample list
GetUserPages(t) ==
  /\ Free(t)
  /\ IF Falsy(config.accessToken)
       THEN /\ task' = [task EXCEPT ![t] =
                 [Begin(t, "pages", "done", NoConfig) EXCEPT
                    !.ret = "ok", !.pages = FallbackPages,
                    !.why = "Notion not configured. Please authenticate first."]]
            /\ notion' = notion
       ELSE /\ task' = [task EXCEPT ![t] = Begin(t, "pages", "search", NoConfig)]
            /\ notion' = IF notion = Null THEN config.accessToken ELSE notion
  /\ calls' = calls + 1
  /\ UNCHANGED <<storage, config, saved, cleared>>
  /\ UNCHANGED syncVars

\* if (!this.notion) throw; await this.notion.search(...): the search answers
\* with its results, which are mapped, or it fails and the catch block returns
\* the sample list
SearchPages(t, ok, results) ==
  /\ task[t].pc = "search"
  /\ IF notion = Null
       THEN task' = [task EXCEPT ![t].pc = "done", ![t].ret = "ok",
                                 ![t].pages = FallbackPages,
                                 ![t].why = "Notion client not initialized"]
       ELSE IF ok
         THEN task' = [task EXCEPT ![t].pc = "done", ![t].ret = "ok",
                                   ![t].pages = MapPages(results),
                                   ![t].searchToken = notion]
         ELSE task' = [task EXCEPT ![t].pc = "done", ![t].ret = "ok",
                                   ![t].pages = FallbackPages,
                                   ![t].why = "search failed",
                                   ![t].searchToken = notion]
  /\ UNCHANGED <<storage, config, notion, saved, cleared, calls>>
  /\ UNCHANGED syncVars

\* ------------------------------------------------------------------ notes

\* at most this many notes are ever created
MaxNotes == 2

\* Note.notionSyncStatus: absent, or { isSynced, lastSyncAttempt, error }
NoStatus == [present |-> FALSE, isSynced |-> FALSE, error |-> ""]

SyncedStatus == [present |-> TRUE, isSynced |-> TRUE, error |-> ""]

FailedStatus(msg) == [present |-> TRUE, isSynced |-> FALSE, error |-> msg]

\* interface Note; notes are created one after another, so the id also stands
\* for createdAt
Note(id, content, st) == [id |-> id, content |-> content, notionSyncStatus |-> st]

NoNote == Note(0, "", NoStatus)

NoteIds == 1..MaxNotes

\* !note.notionSyncStatus?.isSynced
IsUnsynced(n) == ~(n.notionSyncStatus.present /\ n.notionSyncStatus.isSynced)

\* a bar that lists every note, synced or not
UnfilteredOf(ns) == ns

\* updateUnsyncedNotes: notes.filter(note => !note.notionSyncStatus?.isSynced)
UnsyncedOf(ns) == SelectSeq(ns, IsUnsynced)

\* a sequence without its element at index k
RemoveAt(s, k) == [i \in 1..(Len(s) - 1) |-> IF i < k THEN s[i] ELSE s[i + 1]]

\* savedNotes.sort((a, b) => b.createdAt.getTime() - a.createdAt.getTime())
RECURSIVE SortByCreatedDesc(_)
SortByCreatedDesc(s) ==
  IF s = <<>> THEN <<>>
  ELSE LET m == CHOOSE i \in DOMAIN s : \A j \in DOMAIN s : s[j].id <= s[i].id
       IN <<s[m]>> \o SortByCreatedDesc(RemoveAt(s, m))

\* StorageService.saveNote: [...existingNotes, note]
SaveNoteTo(existingNotes, n) == Append(existingNotes, n)

\* StorageService.updateNote: notes.map(note => note.id === updatedNote.id ? updatedNote : note)
UpdateNoteIn(ns, updatedNote) ==
  [i \in DOMAIN ns |-> IF ns[i].id = updatedNote.id THEN updatedNote ELSE ns[i]]

\* StorageService.deleteNote: notes.filter(note => note.id !== noteId)
DeleteNoteFrom(ns, noteId) == SelectSeq(ns, LAMBDA n : n.id # noteId)

\* note.notionSyncStatus = st, on the object with this id in an array
MarkIn(ns, id, st) ==
  [i \in DOMAIN ns |-> IF ns[i].id = id THEN [ns[i] EXCEPT !.notionSyncStatus = st] ELSE ns[i]]

\* an isConfigured that looks at the access token alone
HasTokenOf(c) == c # NoConfig /\ c.accessToken # ""

\* NotionService.isConfigured of a cached record
IsConfiguredOf(c) == c # NoConfig /\ c.accessToken # "" /\ c.pageId # ""

IsConfigured == IsConfiguredOf(config)

\* --------------------------------------------------------------- syncNote

\* the callers of syncNote: trySyncToNotion, handleSyncAll, and any other caller
Callers == {"auto", "batch", "direct"}

IdleSync ==
  [pc |-> "idle", note |-> NoNote, ret |-> "none", error |-> "",
   remoteCalls |-> 0, appendIssued |-> FALSE]

\* the checks of syncNote and initializeNotion before the first remote call:
\* the message of the error thrown, "" when none is
SyncNoteCheck ==
  IF Falsy(config.pageId) THEN "No Notion page selected"
  ELSE IF Falsy(config.accessToken) THEN "Notion not configured. Please authenticate first."
  ELSE ""

\* what the catch block of syncNote hands the caller: it logs and returns true
SyncNoteCatch == "true"

\* caller c calls syncNote(n): the code up to the first await
CallSyncNote(c, n) ==
  IF SyncNoteCheck = ""
    THEN /\ sn' = [sn EXCEPT ![c] = [IdleSync EXCEPT !.pc = "update", !.note = n]]
         /\ notion' = IF notion = Null THEN config.accessToken ELSE notion
    ELSE /\ sn' = [sn EXCEPT ![c] = [IdleSync EXCEPT !.pc = "ret", !.note = n,
                                        !.ret = SyncNoteCatch, !.error = SyncNoteCheck]]
         /\ notion' = notion

\* await this.notion.pages.update({ page_id: this.config.pageId }): it succeeds
\* or throws; this.notion.pages and this.config.pageId
\* throw a TypeError when a disconnect has nulled them
SyncNoteUpdate(c, ok) ==
  /\ sn[c].pc = "update"
  /\ IF config = NoConfig \/ notion = Null
       THEN sn' = [sn EXCEPT ![c].pc = "ret", ![c].ret = SyncNoteCatch,
                             ![c].error = "Cannot read properties of null"]
       ELSE IF ok
         THEN sn' = [sn EXCEPT ![c].pc = "append", ![c].remoteCalls = @ + 1]
         ELSE sn' = [sn EXCEPT ![c].pc = "ret", ![c].ret = SyncNoteCatch,
                               ![c].error = "pages.update failed", ![c].remoteCalls = @ + 1]
  /\ UNCHANGED <<remote>>

\* await this.notion.blocks.children.append({ block_id: this.config.pageId, ... })
SyncNoteAppend(c, ok) ==
  /\ sn[c].pc = "append"
  /\ IF config = NoConfig \/ notion = Null
       THEN /\ sn' = [sn EXCEPT ![c].pc = "ret", ![c].ret = SyncNoteCatch,
                                ![c].error = "Cannot read properties of null"]
            /\ remote' = remote
       ELSE IF ok
         THEN /\ sn' = [sn EXCEPT ![c].pc = "ret", ![c].ret = "true",
                                  ![c].remoteCalls = @ + 1, ![c].appendIssued = TRUE]
              /\ remote' = [remote EXCEPT ![sn[c].note.id] =
                   Append(@, [content |-> sn[c].note.content, page |-> config.pageId,
                              token |-> notion])]
         ELSE /\ sn' = [sn EXCEPT ![c].pc = "ret", ![c].ret = SyncNoteCatch,
                                  ![c].error = "blocks.children.append failed",
                                  ![c].remoteCalls = @ + 1, ![c].appendIssued = TRUE]
              /\ remote' = remote

\* ensurePageExists: the message of the error it throws before its delay
EnsurePageCheck == IF Falsy(config.pageId) THEN "No Notion page selected" ELSE ""

\* ------------------------------------------------------------- HomeScreen

\* at most this many Sync All runs
MaxRuns == 2

\* at most this many saved edits and deletions of notes
MaxUserOps == 1

\* the HomeScreen is on top of the navigation stack
HomeFocused == edit.pc = "closed"

\* setNotes(ns), the render it causes and the SyncStatusBar effect on [notes]:
\* updateUnsyncedNotes() and checkNotionConfig(), whose result supersedes that
\* of one still running
SetNotes(ns) ==
  /\ notes' = ns
  /\ unsyncedNotes' = UnsyncedOf(ns)
  /\ barStale' = FALSE
  /\ checking' = TRUE

\* HomeScreen.loadNotes: getNotes, sort, setNotes
LoadedNotes == SortByCreatedDesc(notesStore)

\* a setNotes while handleSyncAll runs: its closure no longer holds the state's array
Detach(b) == [b EXCEPT !.live = FALSE]

\* navigation.navigate('NoteEdit', { note }): the screen shows this note, unless
\* its handleSave is running on the note it closed over
Navigate(e, n) == IF e.pc \in {"closed", "open"} THEN [e EXCEPT !.pc = "open", !.note = n] ELSE e

IdleAuto == [pc |-> "idle", note |-> NoNote, buf |-> <<>>, failed |-> FALSE]

\* transcribeAudio: the transcription arrives and newNote is built
TranscribeAudio ==
  /\ auto.pc = "idle"
  /\ HomeFocused
  /\ created < MaxNotes
  /\ auto' = [IdleAuto EXCEPT !.pc = "saveRead", !.note = Note(created + 1, "c1", NoStatus)]
  /\ created' = created + 1

\* stopRecording -> transcribeAudio, with the recording itself left out
AutoStart ==
  /\ TranscribeAudio
  /\ UNCHANGED <<credVars, notesStore, remote, notes, unsyncedNotes, isSyncing,
                 isNotionConfigured, barStale, checking, reload, sn, batch, edit, del, rec>>

\* ------------------------------------------------- HomeScreen, the recorder

\* setTimeout(..., 120000) in startRecording
AUTO_STOP_MS == 120000

\* the length of one step of the model's clock, in milliseconds
TickMs == 60000

\* the clock stops after this many steps
MaxTime == 3

\* the delay of the auto-stop timer in steps of the clock
AutoStopTicks == AUTO_STOP_MS \div TickMs

\* isRecording: recordingState.isRecording; recording: the state `recording`
\* holds an Audio.Recording; active: the device is recording, since startedAt;
\* timers: the pending auto-stop timeouts, each with the time it is due and the
\* recordingState.isRecording and `recording` its callback closed over
IdleRec ==
  [pc |-> "idle", isRecording |-> FALSE, recording |-> FALSE, active |-> FALSE,
   startedAt |-> 0, timers |-> {}, now |-> 0,
   closure |-> [isRecording |-> FALSE, recording |-> FALSE]]

\* one step of the clock passes; a timeout that is due runs first
Tick ==
  /\ rec.now < MaxTime
  /\ \A tm \in rec.timers : tm.due > rec.now
  /\ rec' = [rec EXCEPT !.now = @ + 1]
  /\ UNCHANGED <<credVars, notesStore, remote, notes, unsyncedNotes, isSyncing,
                 isNotionConfigured, barStale, checking, reload, sn, auto, batch, edit,
                 del, created>>

\* stopRecording of a render in which `recording` was hadRecording, up to its
\* await: if (!recording) return; await recording.stopAndUnloadAsync()
StopRecording(r, hadRecording) ==
  IF hadRecording /\ r.pc = "recording"
    THEN [r EXCEPT !.pc = "stopping", !.active = FALSE]
    ELSE r

\* handleMicrophonePress while not recording: startRecording is called and
\* awaits Audio.Recording.createAsync; its closure holds the state of this
\* render.  A recording is started while no note is being made, MaxNotes times
PressToStart ==
  /\ HomeFocused
  /\ rec.pc = "idle"
  /\ ~rec.isRecording
  /\ auto.pc = "idle"
  /\ created < MaxNotes
  /\ rec' = [rec EXCEPT !.pc = "creating",
                        !.closure = [isRecording |-> rec.isRecording,
                                     recording |-> rec.recording]]
  /\ UNCHANGED <<credVars, notesStore, remote, notes, unsyncedNotes, isSyncing,
                 isNotionConfigured, barStale, checking, reload, sn, auto, batch, edit,
                 del, created>>

\* createAsync resolves: the device records; setRecording, setRecordingState
\* ({ isRecording: true }), and the auto-stop timeout is set
RecordingCreated ==
  /\ rec.pc = "creating"
  /\ rec' = [rec EXCEPT !.pc = "recording", !.isRecording = TRUE, !.recording = TRUE,
                        !.active = TRUE, !.startedAt = rec.now,
                        !.timers = @ \cup {[due |-> rec.now + AutoStopTicks,
                                            isRecording |-> rec.closure.isRecording,
                                            recording |-> rec.closure.recording]}]
  /\ UNCHANGED <<credVars, notesStore, remote, notes, unsyncedNotes, isSyncing,
                 isNotionConfigured, barStale, checking, reload, sn, auto, batch, edit,
                 del, created>>

\* createAsync rejects: the catch block of startRecording alerts
RecordingFailed ==
  /\ rec.pc = "creating"
  /\ rec' = [rec EXCEPT !.pc = "idle"]
  /\ UNCHANGED <<credVars, notesStore, remote, notes, unsyncedNotes, isSyncing,
                 isNotionConfigured, barStale, checking, reload, sn, auto, batch, edit,
                 del, created>>

\* the timeout callback: if (recordingState.isRecording) stopRecording(), over
\* the state its closure holds
AutoStopTimeout ==
  /\ \E tm \in rec.timers :
       /\ tm.due <= rec.now
       /\ rec' = [(IF tm.isRecording THEN StopRecording(rec, tm.recording) ELSE rec)
                    EXCEPT !.timers = rec.timers \ {tm}]
  /\ UNCHANGED <<credVars, notesStore, remote, notes, unsyncedNotes, isSyncing,
                 isNotionConfigured, barStale, checking, reload, sn, auto, batch, edit,
                 del, created>>

\* handleMicrophonePress while recording: stopRecording of the current render
PressToStop ==
  /\ HomeFocused
  /\ rec.pc = "recording"
  /\ rec.isRecording
  /\ rec' = StopRecording(rec, rec.recording)
  /\ UNCHANGED <<credVars, notesStore, remote, notes, unsyncedNotes, isSyncing,
                 isNotionConfigured, barStale, checking, reload, sn, auto, batch, edit,
                 del, created>>

\* stopAndUnloadAsync resolves: setRecording(null), setRecordingState({
\* isRecording: false }); with a uri transcribeAudio runs, and its
\* transcription arrives
RecordingStopped ==
  /\ rec.pc = "stopping"
  /\ rec' = [rec EXCEPT !.pc = "idle", !.isRecording = FALSE, !.recording = FALSE]
  /\ TranscribeAudio
  /\ UNCHANGED <<credVars, notesStore, remote, notes, unsyncedNotes, isSyncing,
                 isNotionConfigured, barStale, checking, reload, sn, batch, edit, del>>

\* stopAndUnloadAsync resolves, and there is no uri or the transcription fails:
\* no note is made
RecordingLost ==
  /\ rec.pc = "stopping"
  /\ rec' = [rec EXCEPT !.pc = "idle", !.isRecording = FALSE, !.recording = FALSE]
  /\ UNCHANGED <<credVars, notesStore, remote, notes, unsyncedNotes, isSyncing,
                 isNotionConfigured, barStale, checking, reload, sn, auto, batch, edit,
                 del, created>>

\* saveNote: const existingNotes = await this.getNotes()
AutoSaveRead ==
  /\ auto.pc = "saveRead"
  /\ auto' = [auto EXCEPT !.pc = "saveWrite", !.buf = notesStore]
  /\ UNCHANGED <<credVars, notesStore, remote, notes, unsyncedNotes, isSyncing,
                 isNotionConfigured, barStale, checking, reload, sn, batch, edit, del, created, rec>>

\* saveNote: await AsyncStorage.setItem(NOTES_STORAGE_KEY, [...existingNotes, note])
AutoSaveWrite ==
  /\ auto.pc = "saveWrite"
  /\ notesStore' = SaveNoteTo(auto.buf, auto.note)
  /\ auto' = [auto EXCEPT !.pc = "load1", !.buf = <<>>]
  /\ UNCHANGED <<credVars, remote, notes, unsyncedNotes, isSyncing,
                 isNotionConfigured, barStale, checking, reload, sn, batch, edit, del, created, rec>>

\* await loadNotes(), then trySyncToNotion up to its first await: it returns at
\* once when Notion is not configured (and transcribeAudio navigates to the new
\* note), otherwise it calls ensurePageExists
AutoLoad1 ==
  /\ auto.pc = "load1"
  /\ SetNotes(LoadedNotes)
  /\ batch' = Detach(batch)
  /\ IF ~IsConfigured
       THEN /\ auto' = IdleAuto
            /\ edit' = Navigate(edit, auto.note)
       ELSE /\ edit' = edit
            /\ IF EnsurePageCheck = ""
                 THEN auto' = [auto EXCEPT !.pc = "ensure"]
                 ELSE auto' = [auto EXCEPT !.pc = "updRead", !.failed = TRUE,
                                 !.note.notionSyncStatus = FailedStatus(EnsurePageCheck)]
  /\ UNCHANGED <<credVars, notesStore, remote,
                 isSyncing, isNotionConfigured, reload, sn, del, created, rec>>

\* the delay of ensurePageExists is over: trySyncToNotion calls syncNote
AutoEnsure ==
  /\ auto.pc = "ensure"
  /\ CallSyncNote("auto", auto.note)
  /\ auto' = [auto EXCEPT !.pc = "syncing"]
  /\ UNCHANGED <<storage, config, task, saved, cleared, calls, notesStore, remote, notes,
                 unsyncedNotes, isSyncing, isNotionConfigured, barStale, checking, reload,
                 batch, edit, del, created, rec>>

\* syncNote has returned (or thrown) to trySyncToNotion: it sets the status
AutoResume ==
  /\ auto.pc = "syncing"
  /\ sn["auto"].pc = "ret"
  /\ auto' = [auto EXCEPT !.pc = "updRead", !.failed = (sn["auto"].error # ""),
                !.note.notionSyncStatus =
                   IF sn["auto"].ret = "true" THEN SyncedStatus
                   ELSE FailedStatus(sn["auto"].error)]
  /\ sn' = [sn EXCEPT !["auto"] = IdleSync]
  /\ UNCHANGED <<credVars, notesStore, remote, notes, unsyncedNotes, isSyncing,
                 isNotionConfigured, barStale, checking, reload, batch, edit, del, created, rec>>

\* updateNote: const notes = await this.getNotes()
AutoUpdRead ==
  /\ auto.pc = "updRead"
  /\ auto' = [auto EXCEPT !.pc = "updWrite", !.buf = notesStore]
  /\ UNCHANGED <<credVars, notesStore, remote, notes, unsyncedNotes, isSyncing,
                 isNotionConfigured, barStale, checking, reload, sn, batch, edit, del, created, rec>>

\* updateNote: await AsyncStorage.setItem(NOTES_STORAGE_KEY, updatedNotes)
AutoUpdWrite ==
  /\ auto.pc = "updWrite"
  /\ notesStore' = UpdateNoteIn(auto.buf, auto.note)
  /\ auto' = [auto EXCEPT !.pc = "load2", !.buf = <<>>]
  /\ UNCHANGED <<credVars, remote, notes, unsyncedNotes, isSyncing,
                 isNotionConfigured, barStale, checking, reload, sn, batch, edit, del, created, rec>>

\* await loadNotes(); trySyncToNotion returns and transcribeAudio navigates
AutoLoad2 ==
  /\ auto.pc = "load2"
  /\ SetNotes(LoadedNotes)
  /\ batch' = Detach(batch)
  /\ auto' = IdleAuto
  /\ edit' = Navigate(edit, auto.note)
  /\ UNCHANGED <<credVars, notesStore, remote,
                 isSyncing, isNotionConfigured, reload, sn, del, created, rec>>

\* HomeScreen.loadNotes on focus, after a delete, from handleSyncComplete
LoadNotes ==
  /\ reload
  /\ reload' = FALSE
  /\ SetNotes(LoadedNotes)
  /\ batch' = Detach(batch)
  /\ UNCHANGED <<credVars, notesStore, remote,
                 isSyncing, isNotionConfigured, sn, auto, edit, del, created, rec>>

\* what loadConfig reads from the five entries when no write comes in between
StoredRecord ==
  NotionConfig(storage[NOTION_TOKEN_KEY], storage[NOTION_PAGE_ID_KEY],
               storage[NOTION_PAGE_NAME_KEY], storage[NOTION_USER_ID_KEY],
               storage[NOTION_WORKSPACE_ID_KEY], Undef)

\* SyncStatusBar.checkNotionConfig: await loadConfig(), then
\* setIsNotionConfigured(notionService.isConfigured())
BarCheck ==
  /\ checking
  /\ checking' = FALSE
  /\ config' = IF ~Falsy(StoredRecord.accessToken) THEN LoadedConfig(StoredRecord) ELSE config
  /\ isNotionConfigured' = IsConfiguredOf(config')
  /\ UNCHANGED <<storage, notion, task, saved, cleared, calls, notesStore, remote, notes,
                 unsyncedNotes, isSyncing, barStale, reload, sn, auto, batch, edit,
                 del, created, rec>>

\* ---------------------------------------------------------- SyncStatusBar

IdleBatch ==
  [pc |-> "idle", list |-> <<>>, cnotes |-> <<>>, i |-> 1,
   successCount |-> 0, errorCount |-> 0, live |-> FALSE, alias |-> FALSE,
   ensured |-> FALSE, appendFor |-> [id \in NoteIds |-> 0],
   errors |-> [id \in NoteIds |-> ""], total |-> 0, presynced |-> 0,
   ensureCalls |-> 0, attempts |-> [id \in NoteIds |-> 0],
   outcome |-> "", runs |-> 0, prevDone |-> {}]

\* the notes the run before this one appended, when it appended every note of
\* its list without an error and HomeScreen.loadNotes has run since (the reload
\* that onSyncComplete asks for is no longer pending); no note otherwise
DoneBy(b) ==
  IF /\ b.outcome # ""
     /\ ~reload
     /\ \A k \in DOMAIN b.list :
          b.appendFor[b.list[k].id] > 0 /\ b.errors[b.list[k].id] = ""
    THEN {b.list[k].id : k \in DOMAIN b.list}
    ELSE {}

\* a handleSyncAll that starts its loop without calling ensurePageExists
BatchStartNoEnsure ==
  /\ batch.pc = "idle"
  /\ batch.runs < MaxRuns
  /\ HomeFocused
  /\ isNotionConfigured
  /\ ~isSyncing
  /\ unsyncedNotes # <<>>
  /\ batch' = [IdleBatch EXCEPT !.pc = "loop", !.list = unsyncedNotes,
                                !.cnotes = notes, !.live = TRUE,
                                !.alias = ~barStale, !.total = Len(notes),
                                !.presynced = Len(notes) - Len(UnsyncedOf(notes)),
                                !.runs = batch.runs + 1,
                                          !.prevDone = DoneBy(batch)]
  /\ isSyncing' = TRUE
  /\ UNCHANGED <<unsyncedNotes, barStale>>
  /\ UNCHANGED <<credVars, notesStore, remote, notes, isNotionConfigured, checking,
                 reload, sn, auto, edit, del, created, rec>>

\* the sync button is rendered and enabled, and the user confirms 'Sync Now':
\* handleSyncAll up to its first await.  ensurePageExists throws at once when
\* no page is selected, which the outer catch and the finally block handle
BatchStart ==
  /\ batch.pc = "idle"
  /\ batch.runs < MaxRuns
  /\ HomeFocused
  /\ isNotionConfigured
  /\ ~isSyncing
  /\ unsyncedNotes # <<>>
  /\ IF EnsurePageCheck # ""
       THEN /\ batch' = [IdleBatch EXCEPT !.list = unsyncedNotes, !.cnotes = notes,
                                          !.total = Len(notes),
                                          !.presynced = Len(notes) - Len(UnsyncedOf(notes)),
                                          !.ensureCalls = 1,
                                          !.outcome = "Sync Error", !.runs = batch.runs + 1,
                                          !.prevDone = DoneBy(batch)]
            /\ unsyncedNotes' = UnsyncedOf(notes)
            /\ barStale' = FALSE
            /\ isSyncing' = FALSE
       ELSE /\ batch' = [IdleBatch EXCEPT !.pc = "ensure", !.list = unsyncedNotes,
                                          !.cnotes = notes, !.live = TRUE,
                                          !.alias = ~barStale, !.total = Len(notes),
                                          !.presynced = Len(notes) - Len(UnsyncedOf(notes)),
                                          !.ensureCalls = 1,
                                          !.runs = batch.runs + 1,
                                          !.prevDone = DoneBy(batch)]
            /\ isSyncing' = TRUE
            /\ UNCHANGED <<unsyncedNotes, barStale>>
  /\ UNCHANGED <<credVars, notesStore, remote, notes, isNotionConfigured, checking,
                 reload, sn, auto, edit, del, created, rec>>

\* the delay of ensurePageExists is over: the loop over unsyncedNotes starts
BatchEnsure ==
  /\ batch.pc = "ensure"
  /\ batch' = [batch EXCEPT !.pc = "loop", !.ensured = TRUE]
  /\ UNCHANGED <<credVars, notesStore, remote, notes, unsyncedNotes, isSyncing,
                 isNotionConfigured, barStale, checking, reload, sn, auto, edit, del, created, rec>>

\* for (const note of unsyncedNotes): await notionService.syncNote(note)
BatchIter ==
  /\ batch.pc = "loop"
  /\ batch.i <= Len(batch.list)
  /\ CallSyncNote("batch", batch.list[batch.i])
  /\ batch' = [batch EXCEPT !.pc = "syncing", !.attempts[batch.list[batch.i].id] = @ + 1]
  /\ UNCHANGED <<storage, config, task, saved, cleared, calls, notesStore, remote, notes,
                 unsyncedNotes, isSyncing, isNotionConfigured, barStale, checking, reload,
                 auto, edit, del, created, rec>>

\* syncNote has returned or thrown: the note object gets its status and is
\* counted.  The object is the one in the closure's notes array when the bar's
\* list was filtered from it, and the one in the state while no setNotes came
BatchResume ==
  /\ batch.pc = "syncing"
  /\ sn["batch"].pc = "ret"
  /\ LET id == batch.list[batch.i].id
         thrown == sn["batch"].ret # "true"
         st == IF thrown THEN FailedStatus(sn["batch"].error) ELSE SyncedStatus
     IN /\ batch' = [batch EXCEPT
               !.pc = "loop", !.i = @ + 1,
               !.list = MarkIn(@, id, st),
               !.cnotes = IF batch.alias THEN MarkIn(@, id, st) ELSE @,
               !.successCount = IF thrown THEN @ ELSE @ + 1,
               !.errorCount = IF thrown THEN @ + 1 ELSE @,
               !.appendFor[id] = IF sn["batch"].appendIssued THEN @ + 1 ELSE @,
               !.errors[id] = sn["batch"].error]
        /\ notes' = IF batch.alias /\ batch.live THEN MarkIn(notes, id, st) ELSE notes
        /\ unsyncedNotes' = IF batch.live THEN MarkIn(unsyncedNotes, id, st) ELSE unsyncedNotes
  /\ sn' = [sn EXCEPT !["batch"] = IdleSync]
  /\ UNCHANGED <<credVars, notesStore, remote, isSyncing, isNotionConfigured,
                 barStale, checking, reload, auto, edit, del, created, rec>>

\* a handleSyncAll whose loop is left after any note
BatchFinishEarly ==
  /\ batch.pc = "loop"
  /\ batch' = [batch EXCEPT !.pc = "idle", !.outcome = "Sync Complete"]
  /\ reload' = IF batch.successCount > 0 THEN TRUE ELSE reload
  /\ isSyncing' = FALSE
  /\ unsyncedNotes' = UnsyncedOf(batch.cnotes)
  /\ barStale' = ~batch.live
  /\ UNCHANGED <<credVars, notesStore, remote, notes, isNotionConfigured, checking,
                 sn, auto, edit, del, created, rec>>

\* after the loop: the alert, onSyncComplete (HomeScreen.loadNotes) when a note
\* was synced, and the finally block: setIsSyncing(false), updateUnsyncedNotes()
\* over the notes array of the closure
BatchFinish ==
  /\ batch.pc = "loop"
  /\ batch.i > Len(batch.list)
  /\ batch' = [batch EXCEPT !.pc = "idle",
                 !.outcome = IF batch.successCount > 0 /\ batch.errorCount = 0 THEN "Sync Complete"
                             ELSE IF batch.successCount > 0 THEN "Partial Sync Complete"
                             ELSE "Sync Failed"]
  /\ reload' = IF batch.successCount > 0 THEN TRUE ELSE reload
  /\ isSyncing' = FALSE
  /\ unsyncedNotes' = UnsyncedOf(batch.cnotes)
  /\ barStale' = ~batch.live
  /\ UNCHANGED <<credVars, notesStore, remote, notes, isNotionConfigured, checking,
                 sn, auto, edit, del, created, rec>>

\* --------------------------------------------------------- NoteEditScreen

ClosedEdit == [pc |-> "closed", note |-> NoNote, buf |-> <<>>, edits |-> 0]

\* handleNotePress: the edit screen opens on a copy of the pressed note
OpenNote(i) ==
  /\ HomeFocused
  /\ edit.edits + del.deletes < MaxUserOps
  /\ i \in DOMAIN notes
  /\ edit' = [edit EXCEPT !.pc = "open", !.note = notes[i]]
  /\ UNCHANGED <<credVars, notesStore, remote, notes, unsyncedNotes, isSyncing,
                 isNotionConfigured, barStale, checking, reload, sn, auto, batch, del, created, rec>>

\* handleSave on an existing note: updatedNote = { ...processedNote, title,
\* content, updatedAt }, and updateNote is called
EditSave ==
  /\ edit.pc = "open"
  /\ edit.edits + del.deletes < MaxUserOps
  /\ edit' = [edit EXCEPT !.pc = "updRead", !.note.content = "c2", !.edits = @ + 1]
  /\ UNCHANGED <<credVars, notesStore, remote, notes, unsyncedNotes, isSyncing,
                 isNotionConfigured, barStale, checking, reload, sn, auto, batch, del, created, rec>>

\* updateNote: const notes = await this.getNotes()
EditUpdRead ==
  /\ edit.pc = "updRead"
  /\ edit' = [edit EXCEPT !.pc = "updWrite", !.buf = notesStore]
  /\ UNCHANGED <<credVars, notesStore, remote, notes, unsyncedNotes, isSyncing,
                 isNotionConfigured, barStale, checking, reload, sn, auto, batch, del, created, rec>>

\* updateNote: await AsyncStorage.setItem; then navigate('Home'), whose focus
\* listener calls loadNotes
EditUpdWrite ==
  /\ edit.pc = "updWrite"
  /\ notesStore' = UpdateNoteIn(edit.buf, edit.note)
  /\ edit' = [edit EXCEPT !.pc = "closed", !.note = NoNote, !.buf = <<>>]
  /\ reload' = TRUE
  /\ UNCHANGED <<credVars, remote, notes, unsyncedNotes, isSyncing,
                 isNotionConfigured, barStale, checking, sn, auto, batch, del, created, rec>>

\* handleBack without changes: navigate('Home'), whose focus listener calls loadNotes
EditBack ==
  /\ edit.pc = "open"
  /\ edit' = [edit EXCEPT !.pc = "closed", !.note = NoNote]
  /\ reload' = TRUE
  /\ UNCHANGED <<credVars, notesStore, remote, notes, unsyncedNotes, isSyncing,
                 isNotionConfigured, barStale, checking, sn, auto, batch, del, created, rec>>

\* ------------------------------------------------------- handleDeleteNote

IdleDelete == [pc |-> "idle", id |-> 0, buf |-> <<>>, deletes |-> 0]

\* the user confirms the deletion of a listed note: deleteNote is called
DeleteStart(i) ==
  /\ del.pc = "idle"
  /\ edit.edits + del.deletes < MaxUserOps
  /\ HomeFocused
  /\ i \in DOMAIN notes
  /\ del' = [pc |-> "read", id |-> notes[i].id, buf |-> <<>>,
             deletes |-> del.deletes + 1]
  /\ UNCHANGED <<credVars, notesStore, remote, notes, unsyncedNotes, isSyncing,
                 isNotionConfigured, barStale, checking, reload, sn, auto, batch, edit, created, rec>>

\* deleteNote: const notes = await this.getNotes()
DeleteRead ==
  /\ del.pc = "read"
  /\ del' = [del EXCEPT !.pc = "write", !.buf = notesStore]
  /\ UNCHANGED <<credVars, notesStore, remote, notes, unsyncedNotes, isSyncing,
                 isNotionConfigured, barStale, checking, reload, sn, auto, batch, edit, created, rec>>

\* deleteNote: await AsyncStorage.setItem of the filtered notes; then loadNotes
DeleteWrite ==
  /\ del.pc = "write"
  /\ notesStore' = DeleteNoteFrom(del.buf, del.id)
  /\ del' = [del EXCEPT !.pc = "idle", !.buf = <<>>]
  /\ reload' = TRUE
  /\ UNCHANGED <<credVars, remote, notes, unsyncedNotes, isSyncing,
                 isNotionConfigured, barStale, checking, sn, auto, batch, edit, created, rec>>

\* ------------------------------------------------ syncNote, called directly

\* a caller calls syncNote on a note while it has no other call running
DirectSyncNote(t) ==
  /\ Free(t)
  /\ sn["direct"].pc \in {"idle", "ret"}
  /\ task' = [task EXCEPT ![t] = Begin(t, "syncNote", "sync", NoConfig)]
  /\ calls' = calls + 1
  /\ CallSyncNote("direct", Note(1, "c1", NoStatus))
  /\ UNCHANGED <<storage, config, saved, cleared, notesStore, remote, notes,
                 unsyncedNotes, isSyncing, isNotionConfigured, barStale, checking, reload,
                 auto, batch, edit, del, created, rec>>

\* the pages.update call of the syncNote that caller c is running
SyncNoteUpdateFor(c, ok) ==
  /\ SyncNoteUpdate(c, ok)
  /\ UNCHANGED <<credVars, notesStore, notes, unsyncedNotes, isSyncing,
                 isNotionConfigured, barStale, checking, reload, auto, batch, edit, del, created, rec>>

\* the blocks.children.append call of the syncNote that caller c is running
SyncNoteAppendFor(c, ok) ==
  /\ SyncNoteAppend(c, ok)
  /\ UNCHANGED <<credVars, notesStore, notes, unsyncedNotes, isSyncing,
                 isNotionConfigured, barStale, checking, reload, auto, batch, edit, del, created, rec>>

\* syncNote hands its result to the caller
DirectSyncReturn(t) ==
  /\ task[t].pc = "sync"
  /\ sn["direct"].pc = "ret"
  /\ task' = [task EXCEPT ![t].pc = "done", ![t].ret = sn["direct"].ret]
  /\ UNCHANGED <<storage, config, notion, saved, cleared, calls, syncVars>>

\* ------------------------------------------------- the credential store

InitIdle ==
  /\ task = [t \in Tasks |-> IdleTask]
  /\ saved = {}
  /\ cleared = {}
  /\ calls = 0
  /\ isSyncing = FALSE
  /\ barStale = FALSE
  /\ checking = FALSE
  /\ reload = FALSE
  /\ sn = [c \in Callers |-> IdleSync]
  /\ auto = IdleAuto
  /\ batch = IdleBatch
  /\ edit = ClosedEdit
  /\ del = IdleDelete
  /\ rec = IdleRec

\* a fresh installation: nothing persisted, nothing cached, no notes
InitCred ==
  /\ InitIdle
  /\ storage = [k \in CredKeys |-> Null]
  /\ config = NoConfig
  /\ notion = Null
  /\ notesStore = <<>>
  /\ remote = [id \in NoteIds |-> <<>>]
  /\ notes = <<>>
  /\ unsyncedNotes = <<>>
  /\ isNotionConfigured = FALSE
  /\ created = 0

CredStep(t) ==
  \/ StartLoad(t)
  \/ LoadRead(t)
  \/ LoadReturn(t)
  \/ \E c \in SaveInputs : StartSave(t, c)
  \/ SaveWrite(t)
  \/ SaveReturn(t)
  \/ \E p \in Pages : SetSelectedPage(t, p)
  \/ StartDisconnect(t)
  \/ DisconnectRemove(t)
  \/ DisconnectReturn(t)
  \/ StartAuthenticate(t)
  \/ \E r \in BrowserResults : AuthBrowser(t, r)
  \/ \E d \in TokenResponses : AuthFetchOk(t, d)
  \/ AuthFetchNotOk(t)

\* one caller: the calls of the NotionService methods run one after another
NextSeq ==
  \/ CredStep(1)
  \/ DirectSyncNote(1)
  \/ \E ok \in BOOLEAN : SyncNoteUpdateFor("direct", ok)
  \/ \E ok \in BOOLEAN : SyncNoteAppendFor("direct", ok)
  \/ DirectSyncReturn(1)
  \/ GetUserPages(1)
  \/ \E ok \in BOOLEAN, results \in SearchResults : SearchPages(1, ok, results)

SpecSeq == InitCred /\ [][NextSeq]_vars

\* the credential store's own methods, called from NTasks UI surfaces whose
\* calls interleave at their awaits
StoreStep(t) ==
  \/ StartLoad(t)
  \/ LoadRead(t)
  \/ LoadReturn(t)
  \/ \E c \in SaveInputs : StartSave(t, c)
  \/ SaveWrite(t)
  \/ SaveReturn(t)
  \/ \E p \in Pages : SetSelectedPage(t, p)
  \/ StartDisconnect(t)
  \/ DisconnectRemove(t)
  \/ DisconnectReturn(t)

NextCred == \E t \in Tasks : StoreStep(t)

SpecCred == InitCred /\ [][NextCred]_vars

\* StorageService.getNotes, called directly: the awaited getItem answers, or
\* it rejects and the catch block returns []
GetNotesCall(t, ok) ==
  /\ Free(t)
  /\ task' = [task EXCEPT ![t] =
       [Begin(t, "getNotes", "done", NoConfig) EXCEPT !.ret = "ok", !.storageFailed = ~ok]]
  /\ calls' = calls + 1
  /\ UNCHANGED <<storage, config, notion, saved, cleared>>
  /\ UNCHANGED syncVars

\* one caller, whose storage reads and writes can fail
NextFail ==
  \/ CredStep(1)
  \/ LoadFail(1)
  \/ SaveFail(1)
  \/ DisconnectFail(1)
  \/ \E ok \in BOOLEAN : GetNotesCall(1, ok)

SpecFail == InitCred /\ [][NextFail]_vars

\* ------------------------------------------------------ the sync of notes

\* the connection the app starts with: none, authenticated without a page, or
\* configured; as loadConfig caches it
InitialConfigs ==
  {NoConfig,
   NotionConfig("tokA", "", "", "usrA", "wsA", Undef),
   NotionConfig("tokA", "pg1", "Page 1", "usrA", "wsA", Undef)}

\* the persisted entries of a cached record
StorageOf(c) ==
  [k \in CredKeys |->
     CASE k = NOTION_TOKEN_KEY -> c.accessToken
       [] k = NOTION_PAGE_ID_KEY -> c.pageId
       [] k = NOTION_PAGE_NAME_KEY -> c.pageName
       [] k = NOTION_USER_ID_KEY -> OrElse(c.userId, Null)
       [] k = NOTION_WORKSPACE_ID_KEY -> OrElse(c.workspaceId, Null)]

\* the app starts with no note, or with one note of an earlier session that
\* was left unsynced or (with a configured connection) appended and synced
Init ==
  /\ InitIdle
  /\ config \in InitialConfigs
  /\ storage = StorageOf(config)
  /\ notion = Null
  /\ \E st \in {"empty", "unsynced", "synced"} :
       /\ st = "synced" => IsConfigured
       /\ notesStore = CASE st = "empty" -> <<>>
                          [] st = "unsynced" -> <<Note(1, "c1", NoStatus)>>
                          [] st = "synced" -> <<Note(1, "c1", SyncedStatus)>>
       /\ remote = [id \in NoteIds |->
                      IF st = "synced" /\ id = 1
                        THEN <<[content |-> "c1", page |-> config.pageId, token |-> config.accessToken]>>
                        ELSE <<>>]
  /\ notes = notesStore
  /\ unsyncedNotes = UnsyncedOf(notes)
  /\ isNotionConfigured = IsConfigured
  /\ created = Len(notesStore)

\* the steps of the sync flows once a note is being made
SyncStep ==
  \/ AutoSaveRead
  \/ AutoSaveWrite
  \/ AutoLoad1
  \/ AutoEnsure
  \/ AutoResume
  \/ AutoUpdRead
  \/ AutoUpdWrite
  \/ AutoLoad2
  \/ LoadNotes
  \/ BarCheck
  \/ BatchStart
  \/ BatchEnsure
  \/ BatchIter
  \/ BatchResume
  \/ BatchFinish
  \/ \E c \in {"auto", "batch"}, ok \in BOOLEAN : SyncNoteUpdateFor(c, ok)
  \/ \E c \in {"auto", "batch"}, ok \in BOOLEAN : SyncNoteAppendFor(c, ok)

Next ==
  \/ AutoStart
  \/ SyncStep

Spec == Init /\ [][Next]_vars

\* the recorder in front of the sync flows: a note is made when a recording
\* is stopped, and the clock runs
NextRecord ==
  \/ Tick
  \/ PressToStart
  \/ RecordingCreated
  \/ RecordingFailed
  \/ AutoStopTimeout
  \/ PressToStop
  \/ RecordingStopped
  \/ RecordingLost
  \/ SyncStep

SpecRecord == Init /\ [][NextRecord]_vars

\* the sync of notes together with the user's edits and deletions of notes
NextNotes ==
  \/ Next
  \/ \E i \in 1..MaxNotes : OpenNote(i)
  \/ EditSave
  \/ EditUpdRead
  \/ EditUpdWrite
  \/ EditBack
  \/ \E i \in 1..MaxNotes : DeleteStart(i)
  \/ DeleteRead
  \/ DeleteWrite

SpecNotes == Init /\ [][NextNotes]_vars

\* NotionSettingsScreen.handleDisconnect: the user confirms 'Disconnect', once
HandleDisconnect ==
  /\ calls = 0
  /\ StartDisconnect(1)

\* the sync of notes while the user disconnects Notion in the settings
NextSettings ==
  \/ Next
  \/ HandleDisconnect
  \/ DisconnectRemove(1)
  \/ DisconnectReturn(1)

SpecSettings == Init /\ [][NextSettings]_vars

\* StorageService.getNotes when AsyncStorage.getItem rejects (or the stored
\* JSON does not parse): the catch block returns []
GetNotesFailed == <<>>

\* saveNote: const existingNotes = await this.getNotes(), whose read fails
AutoSaveReadFail ==
  /\ auto.pc = "saveRead"
  /\ auto' = [auto EXCEPT !.pc = "saveWrite", !.buf = GetNotesFailed]
  /\ UNCHANGED <<credVars, notesStore, remote, notes, unsyncedNotes, isSyncing,
                 isNotionConfigured, barStale, checking, reload, sn, batch, edit, del,
                 created, rec>>

\* updateNote: const notes = await this.getNotes(), whose read fails
AutoUpdReadFail ==
  /\ auto.pc = "updRead"
  /\ auto' = [auto EXCEPT !.pc = "updWrite", !.buf = GetNotesFailed]
  /\ UNCHANGED <<credVars, notesStore, remote, notes, unsyncedNotes, isSyncing,
                 isNotionConfigured, barStale, checking, reload, sn, batch, edit, del,
                 created, rec>>

\* the sync of notes when a read of the note store can fail
NextReadFail ==
  \/ Next
  \/ AutoSaveReadFail
  \/ AutoUpdReadFail

SpecReadFail == Init /\ [][NextReadFail]_vars

\* the app starts with the connection of an earlier session cached and no note;
\* one caller calls the NotionService methods one after another
InitStored ==
  /\ InitIdle
  /\ config \in InitialConfigs
  /\ storage = StorageOf(config)
  /\ notion = Null
  /\ notesStore = <<>>
  /\ remote = [id \in NoteIds |-> <<>>]
  /\ notes = <<>>
  /\ unsyncedNotes = <<>>
  /\ isNotionConfigured = IsConfigured
  /\ created = 0

SpecStored == InitStored /\ [][NextSeq]_vars

\* ------------------------------------------------------------------ claims

\* what of a record is persisted: the five entries loadConfig reads back
Persisted(c) ==
  [accessToken |-> c.accessToken, pageId |-> OrElse(c.pageId, ""),
   pageName |-> OrElse(c.pageName, ""), userId |-> OrElse(c.userId, Undef),
   workspaceId |-> OrElse(c.workspaceId, Undef)]

\* caller 1 has just completed a call of method op
Completed(t, op) == task[t].op = op /\ task[t].pc = "done"

\* C3: when the redirect URL carries an error parameter or the token endpoint
\* answers with a non-2xx status, authenticate ends by raising an error to its
\* caller, and the persisted entries and the cached record are what they were
\* when the flow started.
C3_OAuthFailureLeavesStore ==
  (Completed(1, "auth") /\ task[1].why \in {"OAuth error", "Token exchange failed"})
    => /\ task[1].ret = "throw"
       /\ storage = task[1].snapStorage
       /\ config = task[1].snapConfig

\* C5: a loadConfig that directly follows a completed saveConfig(record)
\* returns a record equal to the saved one in every field, whatever was saved
\* before.
C5_SaveLoadRoundTrip ==
  (Completed(1, "load") /\ task[1].prevOp = "save") => task[1].val = task[1].prevArg

\* C9: when disconnect has completed, none of the five persisted credential
\* entries is present any more, and the cached record and the client are null.
C9_DisconnectRemovesAll ==
  Completed(1, "disconnect")
    => /\ \A k \in CredKeys : storage[k] = Null
       /\ config = NoConfig
       /\ notion = Null

\* C10: under any interleaving of saveConfig, setSelectedPage, loadConfig and
\* disconnect, a completed loadConfig returns null or a record whose persisted
\* fields are those of one single saved record that no completed disconnect
\* has removed since.
C10_LoadReturnsOneRecord ==
  \A t \in Tasks :
    (Completed(t, "load") /\ task[t].val # NoConfig)
      => \E r \in saved \ cleared : Persisted(r) = Persisted(task[t].val)

\* ------------------------------------------------------- claims on note sync

\* a remote append of this content for this note has completed successfully
Appended(id, content) == \E k \in DOMAIN remote[id] : remote[id][k].content = content

\* C1: every stored note whose isSynced is true has had a remote append of its
\* content complete successfully; a note is never marked synced when its
\* append failed or was never made.
C1_SyncedImpliesAppended ==
  \A k \in DOMAIN notesStore :
    (notesStore[k].notionSyncStatus.present /\ notesStore[k].notionSyncStatus.isSynced)
      => Appended(notesStore[k].id, notesStore[k].content)

\* the notes of the running or last Sync All run that syncNote has returned for
Processed == {k \in DOMAIN batch.list : k < batch.i}

\* C2: a note whose remote append failed during a Sync All run ends with
\* isSynced false and a non-empty error, and the run counts it as a failure
\* and not as a success.
C2_FailedAppendCountsAsFailure ==
  LET failedAppends ==
        {k \in Processed : batch.errors[batch.list[k].id] = "blocks.children.append failed"}
  IN /\ \A k \in failedAppends :
          /\ ~batch.list[k].notionSyncStatus.isSynced
          /\ batch.list[k].notionSyncStatus.error # ""
     /\ batch.errorCount >= Cardinality(failedAppends)
     /\ batch.successCount <= Cardinality(Processed) - Cardinality(failedAppends)

\* C4: a syncNote called while isConfigured() is false ends by raising an
\* error to its caller, has made no remote call, and has changed neither the
\* persisted entries nor the cached record nor the remote page.
C4_UnconfiguredSyncFails ==
  (Completed(1, "syncNote") /\ ~IsConfiguredOf(task[1].snapConfig))
    => /\ task[1].ret = "throw"
       /\ sn["direct"].remoteCalls = 0
       /\ storage = task[1].snapStorage
       /\ config = task[1].snapConfig
       /\ \A id \in NoteIds : remote[id] = <<>>

\* a Sync All run has ended: its alert is shown and its finally block has run
RunEnded == batch.pc = "idle" /\ batch.outcome # ""

\* the append-block calls the running or last Sync All run has issued
RECURSIVE AppendCalls(_)
AppendCalls(ids) ==
  IF ids = {} THEN 0
  ELSE LET id == CHOOSE x \in ids : TRUE
       IN batch.appendFor[id] + AppendCalls(ids \ {id})

\* the errors of syncNote that are raised before its append-block call
ErrorsBeforeAppend ==
  {"No Notion page selected", "Notion not configured. Please authenticate first.",
   "Cannot read properties of null", "pages.update failed"}

InFlight(c) == sn[c].pc \in {"update", "append"}

\* C7: the automatic sync of a new note and a Sync All run never have
\* syncNote calls for the same note in flight at the same time.
C7_OneAttemptPerNote ==
  ~(InFlight("auto") /\ InFlight("batch") /\ sn["auto"].note.id = sn["batch"].note.id)

\* C8: when a Sync All run has ended and no other flow is writing the note
\* store, every note the run attempted is stored with the status of that
\* attempt, so that getNotes returns it.
C8_AttemptStatusPersisted ==
  (RunEnded /\ auto.pc = "idle" /\ edit.pc = "closed" /\ del.pc = "idle")
    => \A k \in Processed :
         \E j \in DOMAIN notesStore :
           /\ notesStore[j].id = batch.list[k].id
           /\ notesStore[j].notionSyncStatus = batch.list[k].notionSyncStatus

\* ------------------------------------------------- claims on storage failures

\* C11: no call of loadConfig, saveConfig, disconnect, authenticate or getNotes
\* completes normally after a storage read or write inside it has failed: it
\* raises an error to its caller.
C11_StorageFailureRaises ==
  \A t \in Tasks :
    (task[t].pc = "done" /\ task[t].storageFailed) => task[t].ret = "throw"

\* a call of saveConfig, directly or by setSelectedPage, has completed
SaveCompleted == Completed(1, "save") \/ Completed(1, "setpage")

\* C17: when a storage write of saveConfig has failed, saveConfig has raised
\* an error to its caller and the cached record is the one from before the call.
C17_FailedSaveKeepsCache ==
  (SaveCompleted /\ task[1].storageFailed)
    => /\ task[1].ret = "throw"
       /\ config = task[1].snapConfig

\* C17, witness: a saveConfig of a new record has failed after its first
\* writes, while another record was cached.
C17_FailedSaveAfterPartialWrite ==
  /\ Completed(1, "save")
  /\ task[1].storageFailed
  /\ task[1].snapConfig # NoConfig
  /\ task[1].arg # task[1].snapConfig
  /\ storage # task[1].snapStorage

\* ------------------------------------------------- claims on the cached record

\* C12: when a loadConfig completes, the cached record is the value it
\* returns; one that returns null for want of a persisted access token leaves
\* no cached record, whatever was cached before.
C12_LoadCachesItsResult ==
  [][\A t \in Tasks :
       (task[t].op = "load" /\ task[t].pc = "lret" /\ task'[t].pc = "done")
         => config' = task'[t].val]_vars

\* a value that is a non-empty string
NonEmptyString(v) == v \notin {Null, Undef, ""}

\* C13: isConfigured() is true exactly when a cached record exists and both
\* its accessToken and its pageId are non-empty strings.
C13_ConfiguredIffTokenAndPage ==
  IsConfigured <=> /\ config # NoConfig
                   /\ NonEmptyString(config.accessToken)
                   /\ NonEmptyString(config.pageId)

\* C13, witness: a record with an access token and an empty pageId is cached
\* after a completed call, and isConfigured() is false.
C13_TokenWithoutPage ==
  /\ task[1].pc = "done"
  /\ config # NoConfig
  /\ NonEmptyString(config.accessToken)
  /\ config.pageId = ""
  /\ ~IsConfigured

\* C14: a loadConfig that follows a completed disconnect returns null,
\* whatever was saved before.
C14_LoadAfterDisconnectIsNull ==
  (Completed(1, "load") /\ task[1].prevOp = "disconnect") => task[1].val = NoConfig

\* C14, witness: a record was saved, disconnect has completed, and the
\* loadConfig after it has completed.
C14_LoadedAfterSaveAndDisconnect ==
  /\ Completed(1, "load")
  /\ task[1].prevOp = "disconnect"
  /\ saved # {}
  /\ cleared = saved

\* C15: when the authorization browser ends with result type cancel,
\* authenticate returns false without raising, and the persisted entries and
\* the cached record are what they were when it started.
C15_CancelReturnsFalse ==
  (Completed(1, "auth") /\ task[1].why = "cancel")
    => /\ task[1].ret = "false"
       /\ storage = task[1].snapStorage
       /\ config = task[1].snapConfig

\* C15, witness: authenticate was cancelled while a record was persisted and
\* cached.
C15_CancelledWhileConnected ==
  /\ Completed(1, "auth")
  /\ task[1].why = "cancel"
  /\ config # NoConfig
  /\ storage[NOTION_TOKEN_KEY] # Null

\* C16: the loadConfig that follows an authenticate whose token exchange
\* succeeded returns the access token, user id, workspace id and workspace
\* name of the token response with an empty page, and is not configured.
C16_OAuthSuccessPersistsIdentity ==
  (Completed(1, "load") /\ task[1].prevOp = "auth" /\ task[1].prevArg \in
       {OAuthConfig(r.access_token, r.user, r.workspace_id, r.workspace_name) : r \in TokenResponses})
    => /\ task[1].val.accessToken = task[1].prevArg.accessToken
       /\ task[1].val.userId = task[1].prevArg.userId
       /\ task[1].val.workspaceId = task[1].prevArg.workspaceId
       /\ task[1].val.workspaceName = task[1].prevArg.workspaceName
       /\ task[1].val.pageId = ""
       /\ ~IsConfiguredOf(task[1].val)

\* ------------------------------------------------- claims on the Sync All run

\* the sum of a per-note counter over a set of note ids
RECURSIVE SumOver(_, _)
SumOver(f, ids) ==
  IF ids = {} THEN 0
  ELSE LET id == CHOOSE x \in ids : TRUE
       IN f[id] + SumOver(f, ids \ {id})

\* the syncNote calls the running or last Sync All run has started
SyncCalls == SumOver(batch.attempts, NoteIds)

\* C18: a Sync All run whose destination check succeeded ends only after
\* every note that was unsynced when it started has had one sync attempt, and
\* successCount + errorCount is the number of those notes.
C18_RunCoversEveryNote ==
  /\ (RunEnded /\ batch.ensured)
       => /\ \A k \in DOMAIN batch.list : batch.attempts[batch.list[k].id] = 1
          /\ SyncCalls = batch.total - batch.presynced
          /\ batch.successCount + batch.errorCount = batch.total - batch.presynced
  /\ batch.pc = "loop" => batch.successCount + batch.errorCount = batch.i - 1

\* C18, witness: a run over two unsynced notes has ended after a syncNote call
\* whose remote call failed and one whose append succeeded.
C18_RunPastFailedNote ==
  /\ RunEnded
  /\ batch.ensured
  /\ Len(batch.list) = 2
  /\ batch.errors[batch.list[1].id] # ""
  /\ batch.errors[batch.list[2].id] = ""

\* C19: in a Sync All run ensurePageExists is called once and has completed
\* before the first syncNote call; a syncNote call starts only when the one
\* before it has returned; when ensurePageExists raises, no syncNote is
\* called and no note of the list gets a status.
C19_EnsureThenSequential ==
  /\ batch.runs > 0 => batch.ensureCalls = 1
  /\ batch.pc = "ensure" => SyncCalls = 0 /\ ~batch.ensured
  /\ sn["batch"].pc # "idle" => batch.pc = "syncing" /\ batch.ensured
  /\ batch.pc = "syncing" => SyncCalls = batch.i
  /\ batch.pc = "loop" => SyncCalls = batch.i - 1 /\ batch.ensured
  /\ batch.outcome = "Sync Error"
       => /\ SyncCalls = 0
          /\ batch.successCount = 0 /\ batch.errorCount = 0
          /\ \A k \in DOMAIN batch.list : IsUnsynced(batch.list[k])
          /\ Len(batch.cnotes) - Len(UnsyncedOf(batch.cnotes)) = batch.presynced

\* C19, witness: the second syncNote call of a run is in flight, after
\* ensurePageExists and the first call have completed.
C19_SecondCallInFlight ==
  /\ batch.pc = "syncing"
  /\ InFlight("batch")
  /\ batch.i = 2
  /\ batch.ensured

\* C20: when the automatic sync attempt of a new note has failed, the note is
\* kept as not synced: trySyncToNotion stores it with isSynced false, so that
\* the bar counts it and the next Sync All attempts it.
C20_FailedAutoSyncStaysUnsynced ==
  (auto.pc \in {"updRead", "updWrite", "load2"} /\ auto.failed)
    => IsUnsynced(auto.note)

\* C21: getUserPages never raises to its caller: on success it returns the
\* entries of the remote search, each with a non-empty title ('Untitled' when
\* the remote item has none); on any failure, a missing access token included,
\* it returns the fixed sample list and no error.
C21_GetUserPagesNeverRaises ==
  Completed(1, "pages") =>
    /\ task[1].ret = "ok"
    /\ \A i \in DOMAIN task[1].pages : NonEmptyString(task[1].pages[i].title)
    /\ task[1].why # "" => task[1].pages = FallbackPages
    /\ task[1].why = "" =>
         \E r \in SearchResults :
           /\ Len(task[1].pages) = Len(r)
           /\ \A i \in DOMAIN r :
                /\ task[1].pages[i].id = r[i].id
                /\ task[1].pages[i].title =
                     IF NonEmptyString(r[i].title) THEN r[i].title ELSE "Untitled"

\* C21 (witness): getUserPages was called with no access token cached and has
\* returned the sample list.
C21_MissingTokenFallsBack ==
  /\ Completed(1, "pages")
  /\ task[1].snapConfig = NoConfig
  /\ config = NoConfig
  /\ task[1].why = "Notion not configured. Please authenticate first."
  /\ task[1].pages = FallbackPages

\* C22: a recording never lasts more than 120 seconds: one the user does not
\* stop is stopped by the timeout 120 seconds after it started.
C22_RecordingAtMostTwoMinutes ==
  rec.active => (rec.now - rec.startedAt) * TickMs <= AUTO_STOP_MS

\* C23: setSelectedPage raises 'Notion not authenticated' and leaves storage
\* and cache unchanged when no record is cached; otherwise it changes only
\* pageId and pageName of the record: accessToken, userId, workspaceId and
\* workspaceName are as they were, in the cache and in what loadConfig returns.
C23_SetSelectedPageChangesOnlyThePage ==
  Completed(1, "setpage") =>
    IF task[1].snapConfig = NoConfig
      THEN /\ task[1].ret = "throw"
           /\ task[1].why = "Notion not authenticated"
           /\ storage = task[1].snapStorage
           /\ config = NoConfig
      ELSE /\ task[1].ret = "ok"
           /\ \E p \in Pages : config.pageId = p.id /\ config.pageName = p.title
           /\ \A f \in {"accessToken", "userId", "workspaceId", "workspaceName"} :
                /\ config[f] = task[1].snapConfig[f]
                /\ LoadedConfig(StoredRecord)[f] = task[1].snapConfig[f]

\* the stored note with this id has a notionSyncStatus
HasStoredStatus(ns, id) ==
  \E k \in DOMAIN ns : ns[k].id = id /\ ns[k].notionSyncStatus.present

\* C24: a stored note has no syncStatus until its first sync attempt: the
\* automatic sync of a new note while isConfigured() is false makes no remote
\* call, sets no status and writes nothing; and once a stored note has a
\* syncStatus, no step makes it absent again while the note is stored.
C24_StatusAbsentThenKept ==
  [][/\ (auto.pc = "load1" /\ ~IsConfigured /\ auto' # auto) =>
          /\ auto' = IdleAuto
          /\ notesStore' = notesStore /\ remote' = remote /\ sn' = sn
          /\ ~HasStoredStatus(notesStore', auto.note.id)
     /\ \A id \in NoteIds :
          (HasStoredStatus(notesStore, id) /\ \E k \in DOMAIN notesStore' : notesStore'[k].id = id)
            => HasStoredStatus(notesStore', id)]_vars

\* C25: after a Sync All run in which every append succeeded and after which
\* the notes were reloaded, the next Sync All run does not list the notes of
\* that run and issues no append for them: no note's content is appended to
\* the destination twice by repeated Sync All.
C25_SyncAllTwiceAppendsOnce ==
  \A id \in batch.prevDone :
    /\ \A k \in DOMAIN batch.list : batch.list[k].id # id
    /\ batch.attempts[id] = 0
    /\ batch.appendFor[id] = 0

\* C26: every remote call (page search, page update, block append) is made
\* with the access token of the record cached at the time of the call: after
\* saveConfig has cached a record with another token, no remote call uses the
\* earlier token.
C26_RemoteCallsUseCachedToken ==
  /\ (Completed(1, "pages") /\ task[1].searchToken # Null)
       => task[1].searchToken = config.accessToken
  /\ (task[1].op = "syncNote" /\ sn["direct"].remoteCalls > 0)
       => notion = config.accessToken

\* the saveNote of the note with this id has completed
SaveNoteCompleted(id) ==
  id \in 1..created /\ (id < created \/ auto.pc \notin {"saveRead", "saveWrite"})

\* a note with this id is stored
Stored(id) == \E k \in DOMAIN notesStore : notesStore[k].id = id

\* C27: under any interleaving of saveNote, updateNote and deleteNote no
\* completed operation is lost: once deleteNote(id) has completed the note is
\* not stored again, also when the delete overlaps the status write of an
\* automatic sync of that note; and a note added by a completed saveNote is
\* not dropped by an overlapping update or delete of another note.
C27_NoCompletedOperationLost ==
  /\ (del.deletes > 0 /\ del.pc = "idle") => ~Stored(del.id)
  /\ \A id \in NoteIds :
       (SaveNoteCompleted(id) /\ ~(del.deletes > 0 /\ del.id = id)) => Stored(id)

\* C28: saveNote and updateNote do not remove a stored note other than the one
\* they are called for: with no deletion, every note whose saveNote has
\* completed is still stored after any later saveNote or updateNote, also when
\* the read of the existing list inside the operation failed.
C28_OtherNotesStayStored ==
  \A id \in NoteIds :
    SaveNoteCompleted(id) =>
      \E k \in DOMAIN notesStore : notesStore[k].id = id /\ notesStore[k].content = "c1"

\* the errors a syncNote call ends with when a disconnect has nulled the cached
\* record or the client before its append was issued
NulledErrors ==
  {"Cannot read properties of null", "No Notion page selected",
   "Notion not configured. Please authenticate first."}

\* C29: a disconnect that completes while a sync is in flight wins: once
\* disconnect has completed no remote append is issued, and no note is marked
\* isSynced = true by a sync attempt that had not finished its append before
\* the disconnect.
C29_DisconnectWins ==
  [][/\ (Completed(1, "disconnect") /\ task[1].ret = "ok") => remote' = remote
     /\ \A k \in DOMAIN batch'.list :
          batch'.errors[batch'.list[k].id] \in NulledErrors
            => ~batch'.list[k].notionSyncStatus.isSynced
     /\ (auto'.pc = "updRead" /\ sn["auto"].error \in NulledErrors)
          => ~auto'.note.notionSyncStatus.isSynced]_vars

\* a record is cached, and an access token is persisted
Connected(c, st) == <<c # NoConfig, ~Falsy(st[NOTION_TOKEN_KEY])>>

\* C30: saveConfig and disconnect are all-or-nothing: when one of them raises
\* because a storage call failed part-way, the persisted entries and the cached
\* record are what they were before the call, so cache and storage still agree
\* on whether a connection exists.
C30_FailedCallChangesNothing ==
  (/\ task[1].pc = "done"
   /\ task[1].op \in {"save", "disconnect"}
   /\ task[1].ret = "throw"
   /\ task[1].storageFailed)
    => /\ storage = task[1].snapStorage
       /\ config = task[1].snapConfig
       /\ Connected(config, storage) = Connected(task[1].snapConfig, task[1].snapStorage)

====
